---- MODULE Spec2Model ----
(***************************************************************************)
(* Model of the embedding / index / retrieval pipeline:                    *)
(*   src/src/indexing/faiss_index.py          (FAISSIndex)                 *)
(*   src/src/retrieval/image_retrieval_system.py (ImageRetrievalSystem)    *)
(*   src/src/encoders/*.py                    (encoders)                   *)
(*                                                                         *)
(* Vectors are two-dimensional, axis-aligned integer vectors, so that the  *)
(* Euclidean norm, the inner product and the squared L2 distance are exact *)
(* integers.  A row that numpy turns into NaN (0/0) is the record NaNVec.  *)
(***************************************************************************)
EXTENDS Integers, Sequences, FiniteSets, TLC

VARIABLES sys, disk, last, hist

vars == <<sys, disk, last, hist>>

(***************************************************************************)
(* Bounds of the model.                                                    *)
(***************************************************************************)
MaxVectors == 3        \* vectors held by one index
MaxArgLen == 2         \* length of an argument list of a direct add_vectors call
MaxTopK == 2           \* largest top_k that is asked for
MaxFiles == 3          \* image files one directory holds
MaxBatch == 2          \* largest batch_size of an ingestion call

Paths == {"a.jpg", "b.png", "c.jpg"}

IndexTypes == {"flat", "ivf", "hnsw"}

EncoderTypes == {"clip", "nvidia_nim"}

(***************************************************************************)
(* Vectors and numpy arithmetic.                                           *)
(***************************************************************************)
Vec(x, y) == [x |-> x, y |-> y, nan |-> FALSE]

NaNVec == [x |-> 0, y |-> 0, nan |-> TRUE]

ZeroVec == Vec(0, 0)

Abs(n) == IF n < 0 THEN -n ELSE n

\* np.linalg.norm of an axis-aligned vector
Norm(v) == Abs(v.x) + Abs(v.y)

\* embeddings / np.linalg.norm(embeddings, axis=1, keepdims=True): a zero row
\* is 0/0 = NaN, every other row becomes the unit vector of its direction.
np_normalize(v) ==
    IF v.nan \/ Norm(v) = 0 THEN NaNVec
    ELSE Vec(v.x \div Norm(v), v.y \div Norm(v))

\* BaseEncoder.normalize_embeddings: embeddings / (norms + 1e-8): a zero row
\* stays the zero row, every other row becomes (up to 1e-8) a unit vector.
normalize_embeddings(v) ==
    IF v.nan THEN NaNVec
    ELSE IF Norm(v) = 0 THEN ZeroVec
    ELSE Vec(v.x \div Norm(v), v.y \div Norm(v))

InnerProduct(a, b) == a.x * b.x + a.y * b.y

L2Squared(a, b) == (a.x - b.x) * (a.x - b.x) + (a.y - b.y) * (a.y - b.y)

IsUnit(v) == ~v.nan /\ Norm(v) = 1

\* raw rows a caller can hand to add_vectors / search
RawVecs == {Vec(1, 0), Vec(0, 1), Vec(-1, 0), Vec(2, 0), ZeroVec}

(***************************************************************************)
(* Image records (metadata).                                               *)
(***************************************************************************)
\* _extract_image_metadata: filename, path, size (a tuple), format, mode,
\* file_size and, for an image that carries EXIF, the EXIF dictionary as PIL
\* returns it (bytes and rational values included).
extract_image_metadata(path, exif) == [path |-> path, exif |-> exif, size |-> "tuple"]

\* the empty dictionary {} that dict.get(key, {}) defaults to
EmptyMeta == [path |-> "", exif |-> FALSE, size |-> "none"]

MetaRecords == {extract_image_metadata(p, e) : p \in Paths, e \in BOOLEAN}

\* dict.get(key, {}) on a dictionary modelled as a function
DictGet(d, key) == IF key \in DOMAIN d THEN d[key] ELSE EmptyMeta

(***************************************************************************)
(* The faiss index object.                                                 *)
(***************************************************************************)
\* a _create_index that builds the exact index for a name it does not know
create_index_defaults_to_flat(index_type) ==
    IF index_type = "ivf"
    THEN [kind |-> "IndexIVFFlat", metric |-> "L2", is_trained |-> FALSE, xb |-> <<>>]
    ELSE IF index_type = "hnsw"
    THEN [kind |-> "IndexHNSWFlat", metric |-> "L2", is_trained |-> TRUE, xb |-> <<>>]
    ELSE [kind |-> "IndexFlatIP", metric |-> "IP", is_trained |-> TRUE, xb |-> <<>>]

\* faiss.IndexFlatIP(d) / faiss.IndexIVFFlat(quantizer, d, nlist) /
\* faiss.IndexHNSWFlat(d, M): the last two are built without a metric
\* argument, so they compare by faiss's default metric, squared L2.
\* A raised exception is the record of kind "ValueError".
create_index(index_type) ==
    CASE index_type = "flat" ->
            [kind |-> "IndexFlatIP", metric |-> "IP", is_trained |-> TRUE, xb |-> <<>>]
      [] index_type = "ivf" ->
            [kind |-> "IndexIVFFlat", metric |-> "L2", is_trained |-> FALSE, xb |-> <<>>]
      [] index_type = "hnsw" ->
            [kind |-> "IndexHNSWFlat", metric |-> "L2", is_trained |-> TRUE, xb |-> <<>>]
      [] OTHER ->
            [kind |-> "ValueError", message |-> <<"Unsupported index type: ", index_type>>]

\* FAISSIndex.__init__
FAISSIndex(embedding_dim, index_type) ==
    [embedding_dim |-> embedding_dim,
     index_type |-> index_type,
     index |-> create_index(index_type),
     image_paths |-> <<>>,
     metadata |-> <<>>]

ntotal(index) == Len(index.xb)

HasNaN(rows) == \E i \in 1..Len(rows) : rows[i].nan

\* index.train(x): k-means needs at least nlist (100) finite training rows;
\* enough_rows says whether the batch stands for one of at least nlist rows.
TrainSucceeds(rows, enough_rows) == enough_rows /\ Len(rows) > 0 /\ ~HasNaN(rows)

\* the per-id metadata after "for i, meta in enumerate(metadata):
\*     self.metadata[start_id + i] = meta"
SetMetadata(old, start_id, metadata) ==
    LET new == {start_id + i - 1 : i \in 1..Len(metadata)}
    IN [k \in (DOMAIN old) \cup new |->
            IF k \in new THEN metadata[k - start_id + 1] ELSE old[k]]

\* add_vectors with start_id read after the paths are appended
add_vectors_start_after_extend(self, embeddings, image_paths, metadata, enough_rows) ==
    LET emb == [i \in 1..Len(embeddings) |-> np_normalize(embeddings[i])]
        needs_train == self.index_type = "ivf" /\ ~self.index.is_trained
        trained == IF needs_train
                   THEN [self.index EXCEPT !.is_trained = TRUE]
                   ELSE self.index
        start_id == Len(self.image_paths) + Len(image_paths)
        added == [trained EXCEPT !.xb = @ \o emb]
    IN  IF needs_train /\ ~TrainSucceeds(emb, enough_rows)
        THEN [self |-> self, raised |-> "RuntimeError"]
        ELSE IF ~trained.is_trained
        THEN [self |-> self, raised |-> "RuntimeError"]
        ELSE [self |-> [self EXCEPT
                          !.index = added,
                          !.image_paths = @ \o image_paths,
                          !.metadata = IF metadata # <<>>
                                       THEN SetMetadata(@, start_id, metadata)
                                       ELSE @],
              raised |-> ""]

\* add_vectors putting the new paths in front of the path list
add_vectors_paths_in_front(self, embeddings, image_paths, metadata, enough_rows) ==
    LET emb == [i \in 1..Len(embeddings) |-> np_normalize(embeddings[i])]
        needs_train == self.index_type = "ivf" /\ ~self.index.is_trained
        trained == IF needs_train
                   THEN [self.index EXCEPT !.is_trained = TRUE]
                   ELSE self.index
        start_id == Len(self.image_paths)
        added == [trained EXCEPT !.xb = @ \o emb]
    IN  IF needs_train /\ ~TrainSucceeds(emb, enough_rows)
        THEN [self |-> self, raised |-> "RuntimeError"]
        ELSE IF ~trained.is_trained
        THEN [self |-> self, raised |-> "RuntimeError"]
        ELSE [self |-> [self EXCEPT
                          !.index = added,
                          !.image_paths = image_paths \o @,
                          !.metadata = IF metadata # <<>>
                                       THEN SetMetadata(@, start_id, metadata)
                                       ELSE @],
              raised |-> ""]

\* FAISSIndex.add_vectors; metadata = <<>> stands for None and for [].
\* The result is the index after the call and the exception it raised ("" if none).
add_vectors(self, embeddings, image_paths, metadata, enough_rows) ==
    LET emb == [i \in 1..Len(embeddings) |-> np_normalize(embeddings[i])]
        needs_train == self.index_type = "ivf" /\ ~self.index.is_trained
        trained == IF needs_train
                   THEN [self.index EXCEPT !.is_trained = TRUE]
                   ELSE self.index
        start_id == Len(self.image_paths)
        added == [trained EXCEPT !.xb = @ \o emb]
    IN  IF needs_train /\ ~TrainSucceeds(emb, enough_rows)
        THEN [self |-> self, raised |-> "RuntimeError"]
        ELSE IF ~trained.is_trained
        THEN [self |-> self, raised |-> "RuntimeError"]
        ELSE [self |-> [self EXCEPT
                          !.index = added,
                          !.image_paths = @ \o image_paths,
                          !.metadata = IF metadata # <<>>
                                       THEN SetMetadata(@, start_id, metadata)
                                       ELSE @],
              raised |-> ""]

(***************************************************************************)
(* Search.                                                                 *)
(***************************************************************************)
\* the order faiss returns hits in: inner product descending for METRIC_IP,
\* squared L2 distance ascending for METRIC_L2; equal scores by ascending id
Distance(index, q, id) ==
    IF index.metric = "IP"
    THEN InnerProduct(q, index.xb[id + 1])
    ELSE L2Squared(q, index.xb[id + 1])

Before(index, q, i, j) ==
    LET di == Distance(index, q, i)
        dj == Distance(index, q, j)
    IN  IF di = dj THEN i <= j
        ELSE IF index.metric = "IP" THEN di > dj ELSE di < dj

RECURSIVE Ranked(_, _, _, _)
Ranked(index, q, ids, k) ==
    IF k <= 0 \/ ids = {} THEN <<>>
    ELSE LET b == CHOOSE i \in ids : \A j \in ids : Before(index, q, i, j)
         IN  <<b>> \o Ranked(index, q, ids \ {b}, k - 1)

\* index.search(x, k) of faiss: exactly k (score, id) pairs; a comparison
\* with NaN is false, so a NaN score never enters the result heap, and the
\* places no vector fills hold the id -1.
faiss_search(index, q, k) ==
    LET comparable == {i \in 0..(ntotal(index) - 1) : ~q.nan /\ ~index.xb[i + 1].nan}
        hits == Ranked(index, q, comparable, k)
    IN  [i \in 1..k |->
            IF i <= Len(hits)
            THEN [score |-> Distance(index, q, hits[i]), id |-> hits[i]]
            ELSE [score |-> IF index.metric = "IP" THEN -9 ELSE 9, id |-> -1]]

\* the hits of faiss handed on as they are, unfilled places included
all_results(pairs) == pairs

\* [(score, idx) for score, idx in zip(scores[0], indices[0]) if idx != -1]
RECURSIVE ValidResults(_)
ValidResults(pairs) ==
    IF pairs = <<>> THEN <<>>
    ELSE (IF Head(pairs).id # -1 THEN <<Head(pairs)>> ELSE <<>>)
         \o ValidResults(Tail(pairs))

\* the query vectors FAISSIndex.search hands to self.index.search (line 101):
\* none when it returns or raises before, else the query after line 94
searched_vectors(self, query_embedding, top_k) ==
    IF ntotal(self.index) = 0 THEN <<>>
    ELSE IF self.index_type = "ivf" /\ self.index.kind # "IndexIVFFlat" THEN <<>>
    ELSE <<np_normalize(query_embedding)>>

\* search without the early return on an empty index
index_search_no_empty_check(self, query_embedding, top_k) ==
    IF self.index_type = "ivf" /\ self.index.kind # "IndexIVFFlat"
    THEN [results |-> <<>>, raised |-> "AttributeError"]
    ELSE IF top_k <= 0
    THEN [results |-> <<>>, raised |-> "AssertionError"]
    ELSE [results |-> ValidResults(faiss_search(self.index, np_normalize(query_embedding), top_k)),
          raised |-> ""]

\* FAISSIndex.search: the (score, id) pairs it returns and the exception raised
index_search(self, query_embedding, top_k) ==
    IF ntotal(self.index) = 0
    THEN [results |-> <<>>, raised |-> ""]
    ELSE IF self.index_type = "ivf" /\ self.index.kind # "IndexIVFFlat"
    THEN [results |-> <<>>, raised |-> "AttributeError"]
    ELSE IF top_k <= 0
    THEN [results |-> <<>>, raised |-> "AssertionError"]
    ELSE [results |-> ValidResults(faiss_search(self.index, np_normalize(query_embedding), top_k)),
          raised |-> ""]

\* get_image_path taking the ids to count from 1
get_image_path_from_one(self, index_id) ==
    IF 0 < index_id /\ index_id < Len(self.image_paths)
    THEN self.image_paths[index_id + 1]
    ELSE ""

\* FAISSIndex.get_image_path
get_image_path(self, index_id) ==
    IF 0 <= index_id /\ index_id < Len(self.image_paths)
    THEN self.image_paths[index_id + 1]
    ELSE ""

\* FAISSIndex.get_metadata
get_metadata(self, index_id) == DictGet(self.metadata, index_id)

\* FAISSIndex.get_stats
index_get_stats(self) ==
    [total_vectors |-> ntotal(self.index),
     embedding_dim |-> self.embedding_dim,
     index_type |-> self.index_type,
     total_images |-> Len(self.image_paths)]

(***************************************************************************)
(* Persisted files at one path prefix P: P.faiss, P_metadata.pkl and       *)
(* P_config.json.  An absent file keeps a default content that is never    *)
(* read.                                                                   *)
(***************************************************************************)
\* the dictionary save_index pickles; pickle returns the objects it was given
metadata_dict(self) ==
    [embedding_dim |-> self.embedding_dim,
     index_type |-> self.index_type,
     image_paths |-> self.image_paths,
     metadata |-> self.metadata]

NoFaissFile == [present |-> FALSE, data |-> create_index("flat")]

NoPklFile == [present |-> FALSE, data |-> metadata_dict(FAISSIndex(0, "flat"))]

\* FAISSIndex.save_index: the disk after faiss.write_index and pickle.dump
save_index(self, files) ==
    [files EXCEPT !.faiss = [present |-> TRUE, data |-> self.index],
                  !.pkl = [present |-> TRUE, data |-> metadata_dict(self)]]

\* load_index adding the persisted paths to the ones it holds
load_index_merges(self, files) ==
    IF ~files.faiss.present
    THEN [self |-> self, raised |-> "FileNotFoundError"]
    ELSE LET read == [self EXCEPT !.index = files.faiss.data]
         IN  IF ~files.pkl.present
             THEN [self |-> read, raised |-> "FileNotFoundError"]
             ELSE [self |-> [read EXCEPT
                               !.embedding_dim = files.pkl.data.embedding_dim,
                               !.index_type = files.pkl.data.index_type,
                               !.image_paths = @ \o files.pkl.data.image_paths,
                               !.metadata = files.pkl.data.metadata],
                   raised |-> ""]

\* load_index leaving index_type as the constructor set it
load_index_keeps_type(self, files) ==
    IF ~files.faiss.present
    THEN [self |-> self, raised |-> "FileNotFoundError"]
    ELSE LET read == [self EXCEPT !.index = files.faiss.data]
         IN  IF ~files.pkl.present
             THEN [self |-> read, raised |-> "FileNotFoundError"]
             ELSE [self |-> [read EXCEPT
                               !.embedding_dim = files.pkl.data.embedding_dim,
                               !.image_paths = files.pkl.data.image_paths,
                               !.metadata = files.pkl.data.metadata],
                   raised |-> ""]

\* FAISSIndex.load_index: self.index is replaced as soon as P.faiss is read,
\* before P_metadata.pkl is looked for.
load_index(self, files) ==
    IF ~files.faiss.present
    THEN [self |-> self, raised |-> "FileNotFoundError"]
    ELSE LET read == [self EXCEPT !.index = files.faiss.data]
         IN  IF ~files.pkl.present
             THEN [self |-> read, raised |-> "FileNotFoundError"]
             ELSE [self |-> [read EXCEPT
                               !.embedding_dim = files.pkl.data.embedding_dim,
                               !.index_type = files.pkl.data.index_type,
                               !.image_paths = files.pkl.data.image_paths,
                               !.metadata = files.pkl.data.metadata],
                   raised |-> ""]

(***************************************************************************)
(* Encoders.  An encoder is its class, its model name and its API key.     *)
(***************************************************************************)
\* what the model computes for an image file / a query text, before the
\* encoder normalizes it
ImageFeatures(path) ==
    CASE path = "a.jpg" -> Vec(2, 0)
      [] path = "b.png" -> Vec(0, 1)
      [] OTHER -> Vec(-1, 0)

Queries == {"cat", "dog"}

TextFeatures(text) == IF text = "cat" THEN Vec(1, 0) ELSE Vec(0, 2)

\* str.lower() on the names a constructor is given
lower(name) ==
    CASE name = "CLIP" -> "clip"
      [] name = "SigLIP" -> "siglip"
      [] name = "Nvidia_NIM" -> "nvidia_nim"
      [] name = "BLIP" -> "blip"
      [] name = "Flat" -> "flat"
      [] OTHER -> name

\* ImageRetrievalSystem._create_encoder; model_name "" stands for None.  A
\* raised exception is the record of kind "ValueError".
create_encoder(encoder_type, model_name, nvidia_api_key) ==
    CASE lower(encoder_type) = "clip" ->
            [kind |-> "CLIPEncoder",
             model_name |-> IF model_name # "" THEN model_name
                            ELSE "openai/clip-vit-base-patch32",
             api_key |-> ""]
      [] lower(encoder_type) = "siglip" ->
            [kind |-> "SigLIPEncoder",
             model_name |-> IF model_name # "" THEN model_name
                            ELSE "google/siglip-base-patch16-224",
             api_key |-> ""]
      [] lower(encoder_type) = "nvidia_nim" ->
            [kind |-> "NVIDIANIMEncoder",
             model_name |-> IF model_name # "" THEN model_name ELSE "nvidia/nvclip",
             api_key |-> nvidia_api_key]
      [] OTHER ->
            [kind |-> "ValueError",
             message |-> <<"Unsupported encoder type: ", encoder_type>>]

\* CLIPEncoder.get_embedding_dim (projection_dim of the model) and
\* NVIDIANIMEncoder.get_embedding_dim
get_embedding_dim(encoder) ==
    IF encoder.kind = "NVIDIANIMEncoder" /\ encoder.model_name = "nvidia/nv-dinov2"
    THEN 1024
    ELSE 512

\* what can happen to one encoding request: the model or the image loading
\* raises ("raise"), or, for the remote encoder, the embeddings request
\* fails and is answered with zero rows ("zero")
EncodeOutcomes(encoder) ==
    IF encoder.kind = "NVIDIANIMEncoder" THEN {"ok", "raise", "zero"} ELSE {"ok", "raise"}

\* encode_images / encode_text on a list that fits one batch: features is
\* the row the model gives each input
encode(encoder, inputs, features, outcome) ==
    IF outcome = "raise"
    THEN [rows |-> <<>>, raised |-> "Exception"]
    ELSE IF encoder.kind = "NVIDIANIMEncoder"
    THEN [rows |-> [i \in 1..Len(inputs) |->
                        normalize_embeddings(IF outcome = "zero" THEN ZeroVec
                                             ELSE features[i])],
          raised |-> ""]
    ELSE [rows |-> [i \in 1..Len(inputs) |-> np_normalize(features[i])],
          raised |-> ""]

encode_images(encoder, images, outcome) ==
    encode(encoder, images, [i \in 1..Len(images) |-> ImageFeatures(images[i])], outcome)

encode_text(encoder, texts, outcome) ==
    encode(encoder, texts, [i \in 1..Len(texts) |-> TextFeatures(texts[i])], outcome)

(***************************************************************************)
(* ImageRetrievalSystem.                                                   *)
(***************************************************************************)
\* ImageRetrievalSystem.__init__
ImageRetrievalSystem(encoder_type, model_name, index_type, nvidia_api_key) ==
    LET encoder == create_encoder(encoder_type, model_name, nvidia_api_key)
    IN  [encoder_type |-> encoder_type,
         index_type |-> index_type,
         nvidia_api_key |-> nvidia_api_key,
         encoder |-> encoder,
         index |-> FAISSIndex(get_embedding_dim(encoder), index_type),
         image_database |-> <<>>]

\* image files that carry EXIF data (a camera JPEG)
ExifFiles == {"c.jpg"}

\* image_paths[i:i + batch_size], i counted from 0
Slice(seq, i, batch_size) ==
    SubSeq(seq, i + 1, IF i + batch_size < Len(seq) THEN i + batch_size ELSE Len(seq))

\* self.image_database[path] = metadata for every path of the batch
PutRecords(image_database, batch_paths) ==
    LET new == {batch_paths[k] : k \in 1..Len(batch_paths)}
    IN  [p \in (DOMAIN image_database) \cup new |->
            IF p \in new THEN extract_image_metadata(p, p \in ExifFiles)
            ELSE image_database[p]]

\* what can happen to one batch: its encoding raises or, with the remote
\* encoder, is answered with zero rows, or the batch is encoded but is too
\* small to train an inverted-file index on
BatchOutcomes(self) ==
    EncodeOutcomes(self.encoder)
      \cup (IF self.index.index_type = "ivf" THEN {"small"} ELSE {})

\* process_batch with the records stored before the batch is encoded
process_batch_records_first(self, batch_paths, outcome) ==
    LET embeddings == encode_images(self.encoder, batch_paths,
                                    IF outcome = "small" THEN "ok" ELSE outcome)
        metadata_list == [k \in 1..Len(batch_paths) |->
                            extract_image_metadata(batch_paths[k], batch_paths[k] \in ExifFiles)]
        recorded == [self EXCEPT !.image_database = PutRecords(@, batch_paths)]
        added == add_vectors(recorded.index, embeddings.rows, batch_paths,
                             metadata_list, outcome # "small")
    IN  IF embeddings.raised # ""
        THEN [self |-> recorded, failed |-> "encode", count |-> 0]
        ELSE IF added.raised # ""
        THEN [self |-> [recorded EXCEPT !.index = added.self], failed |-> "add", count |-> 0]
        ELSE [self |-> [recorded EXCEPT !.index = added.self], failed |-> "",
              count |-> Len(batch_paths)]

\* process_batch counting one per batch instead of one per image
process_batch_counts_batches(self, batch_paths, outcome) ==
    LET embeddings == encode_images(self.encoder, batch_paths,
                                    IF outcome = "small" THEN "ok" ELSE outcome)
        metadata_list == [k \in 1..Len(batch_paths) |->
                            extract_image_metadata(batch_paths[k], batch_paths[k] \in ExifFiles)]
        recorded == [self EXCEPT !.image_database = PutRecords(@, batch_paths)]
        added == add_vectors(recorded.index, embeddings.rows, batch_paths,
                             metadata_list, outcome # "small")
    IN  IF embeddings.raised # ""
        THEN [self |-> self, failed |-> "encode", count |-> 0]
        ELSE IF added.raised # ""
        THEN [self |-> [recorded EXCEPT !.index = added.self], failed |-> "add", count |-> 0]
        ELSE [self |-> [recorded EXCEPT !.index = added.self], failed |-> "", count |-> 1]

\* one pass of the batch loop of add_images_from_directory (the body of the
\* try and its except); outcome is what happens to the batch
process_batch(self, batch_paths, outcome) ==
    LET embeddings == encode_images(self.encoder, batch_paths,
                                    IF outcome = "small" THEN "ok" ELSE outcome)
        metadata_list == [k \in 1..Len(batch_paths) |->
                            extract_image_metadata(batch_paths[k], batch_paths[k] \in ExifFiles)]
        recorded == [self EXCEPT !.image_database = PutRecords(@, batch_paths)]
        added == add_vectors(recorded.index, embeddings.rows, batch_paths,
                             metadata_list, outcome # "small")
    IN  IF embeddings.raised # ""
        THEN [self |-> self, failed |-> "encode", count |-> 0]
        ELSE IF added.raised # ""
        THEN [self |-> [recorded EXCEPT !.index = added.self], failed |-> "add", count |-> 0]
        ELSE [self |-> [recorded EXCEPT !.index = added.self], failed |-> "",
              count |-> Len(batch_paths)]

\* the batch loop leaving at the first batch that fails (break for continue)
RECURSIVE batch_loop_break(_, _, _, _, _, _, _)
batch_loop_break(self, image_paths, i, batch_size, outcomes, added_count, attempts) ==
    IF i >= Len(image_paths)
    THEN [self |-> self, ret |-> added_count, attempts |-> attempts]
    ELSE LET batch_paths == Slice(image_paths, i, batch_size)
             done == process_batch(self, batch_paths, outcomes[Len(attempts) + 1])
             logged == Append(attempts, [start |-> i, paths |-> batch_paths,
                                         failed |-> done.failed])
         IN  IF done.failed # ""
             THEN [self |-> done.self, ret |-> added_count, attempts |-> logged]
             ELSE batch_loop_break(done.self, image_paths, i + batch_size, batch_size,
                                   outcomes, added_count + done.count, logged)

\* the loop "for i in range(0, len(image_paths), batch_size)" from index i on;
\* attempts logs, for every batch the loop enters, where it starts and how it ended
RECURSIVE batch_loop(_, _, _, _, _, _, _)
batch_loop(self, image_paths, i, batch_size, outcomes, added_count, attempts) ==
    IF i >= Len(image_paths)
    THEN [self |-> self, ret |-> added_count, attempts |-> attempts]
    ELSE LET batch_paths == Slice(image_paths, i, batch_size)
             done == process_batch(self, batch_paths, outcomes[Len(attempts) + 1])
         IN  batch_loop(done.self, image_paths, i + batch_size, batch_size, outcomes,
                        added_count + done.count,
                        Append(attempts, [start |-> i, paths |-> batch_paths,
                                          failed |-> done.failed]))

\* ImageRetrievalSystem.add_images_from_directory; image_paths is what glob
\* finds in the directory for the supported formats
add_images_from_directory(self, image_paths, batch_size, outcomes) ==
    IF image_paths = <<>>
    THEN [self |-> self, ret |-> 0, attempts |-> <<>>]
    ELSE batch_loop(self, image_paths, 0, batch_size, outcomes, 0, <<>>)

\* the loop that builds the result list of search and search_by_image
RECURSIVE build_results(_, _, _, _)
build_results(self, hits, return_metadata, results) ==
    IF hits = <<>> THEN results
    ELSE LET image_path == get_image_path(self.index, Head(hits).id)
             result == [image_path |-> image_path,
                        similarity_score |-> Head(hits).score,
                        rank |-> Len(results) + 1]
             full == IF return_metadata
                     THEN [image_path |-> image_path,
                           similarity_score |-> Head(hits).score,
                           rank |-> Len(results) + 1,
                           metadata |-> DictGet(self.image_database, image_path)]
                     ELSE result
         IN  build_results(self, Tail(hits), return_metadata, Append(results, full))

\* the part search and search_by_image share, after the query is encoded
search_encoded(self, encoded, top_k, return_metadata) ==
    IF encoded.raised # ""
    THEN [results |-> <<>>, raised |-> encoded.raised, encoder_called |-> TRUE,
          queried |-> <<>>]
    ELSE LET found == index_search(self.index, encoded.rows[1], top_k)
         IN  [results |-> IF found.raised # "" THEN <<>>
                          ELSE build_results(self, found.results, return_metadata, <<>>),
              raised |-> found.raised,
              encoder_called |-> TRUE,
              queried |-> searched_vectors(self.index, encoded.rows[1], top_k)]

\* search encoding the query before it looks at the index
search_encodes_first(self, query, top_k, return_metadata, outcome) ==
    LET encoded == encode_text(self.encoder, <<query>>, outcome)
    IN  IF encoded.raised # ""
        THEN [results |-> <<>>, raised |-> encoded.raised, encoder_called |-> TRUE,
              queried |-> <<>>]
        ELSE IF ntotal(self.index.index) = 0
        THEN [results |-> <<>>, raised |-> "", encoder_called |-> TRUE, queried |-> <<>>]
        ELSE search_encoded(self, encoded, top_k, return_metadata)

\* ImageRetrievalSystem.search
search(self, query, top_k, return_metadata, outcome) ==
    IF ntotal(self.index.index) = 0
    THEN [results |-> <<>>, raised |-> "", encoder_called |-> FALSE, queried |-> <<>>]
    ELSE search_encoded(self, encode_text(self.encoder, <<query>>, outcome),
                        top_k, return_metadata)

\* ImageRetrievalSystem.search_by_image
search_by_image(self, image, top_k, return_metadata, outcome) ==
    IF ntotal(self.index.index) = 0
    THEN [results |-> <<>>, raised |-> "", encoder_called |-> FALSE, queried |-> <<>>]
    ELSE search_encoded(self, encode_images(self.encoder, <<image>>, outcome),
                        top_k, return_metadata)

\* ImageRetrievalSystem.get_stats
get_stats(self) ==
    [encoder_type |-> self.encoder_type,
     model_name |-> self.encoder.model_name,
     total_images |-> Cardinality(DOMAIN self.image_database),
     index_stats |-> index_get_stats(self.index),
     embedding_dim |-> get_embedding_dim(self.encoder)]

\* json.dump then json.load of one image record: the size tuple comes back as
\* a list
JsonRecord(record) == [record EXCEPT !.size = IF @ = "tuple" THEN "list" ELSE @]

\* json.dump raises TypeError on the bytes and rational values of an EXIF
\* dictionary
JsonSerializable(image_database) ==
    \A p \in DOMAIN image_database : ~image_database[p].exif

\* a configuration document that also carries the API key
system_config_with_key(self) ==
    [encoder_type |-> self.encoder_type,
     model_name |-> self.encoder.model_name,
     index_type |-> self.index_type,
     image_database |-> [p \in DOMAIN self.image_database |->
                            JsonRecord(self.image_database[p])],
     embedding_dim |-> get_embedding_dim(self.encoder),
     nvidia_api_key |-> self.nvidia_api_key]

system_config(self) ==
    [encoder_type |-> self.encoder_type,
     model_name |-> self.encoder.model_name,
     index_type |-> self.index_type,
     image_database |-> [p \in DOMAIN self.image_database |->
                            JsonRecord(self.image_database[p])],
     embedding_dim |-> get_embedding_dim(self.encoder)]

NoConfigFile ==
    [present |-> FALSE, valid |-> FALSE,
     data |-> system_config(ImageRetrievalSystem("clip", "", "flat", ""))]

NoFiles == [faiss |-> NoFaissFile, pkl |-> NoPklFile, config |-> NoConfigFile]

\* ImageRetrievalSystem.save_system: the index is saved first; open(..., 'w')
\* truncates P_config.json and json.dump writes it piece by piece, so a dump
\* that raises leaves an incomplete document behind
save_system(self, files) ==
    LET saved == save_index(self.index, files)
    IN  IF JsonSerializable(self.image_database)
        THEN [files |-> [saved EXCEPT !.config =
                            [present |-> TRUE, valid |-> TRUE, data |-> system_config(self)]],
              raised |-> ""]
        ELSE [files |-> [saved EXCEPT !.config =
                            [present |-> TRUE, valid |-> FALSE, data |-> NoConfigFile.data]],
              raised |-> "TypeError"]

\* list(self.image_database.keys()): every key once, in one fixed order
keys_list(image_database) ==
    LET keys == DOMAIN image_database
    IN  CHOOSE l \in [1..Cardinality(keys) -> keys] : {l[i] : i \in 1..Cardinality(keys)} = keys

\* one-to-one choices of k positions of a list of n elements
Positions(n, k) ==
    {pos \in [1..k -> 1..n] : \A i, j \in 1..k : i # j => pos[i] # pos[j]}

\* a sample drawn with replacement: positions may repeat
random_choices(population, k) ==
    {[i \in 1..k |-> population[pos[i]]] : pos \in [1..k -> 1..Len(population)]}

\* random.sample(population, k), 0 <= k <= len(population): the lists it
\* can return, each of k elements at distinct positions of the population
random_sample(population, k) ==
    {[i \in 1..k |-> population[pos[i]]] : pos \in Positions(Len(population), k)}

\* ImageRetrievalSystem.get_random_images: the lists a call can return
random_images(self, count) ==
    LET image_paths == keys_list(self.image_database)
    IN  IF Len(image_paths) <= count
        THEN {image_paths}
        ELSE random_sample(image_paths, count)

\* ImageRetrievalSystem.get_random_images: the sets of paths a call can
\* return (random.sample draws count of the keys)
get_random_images(self, count) ==
    LET image_paths == DOMAIN self.image_database
    IN  IF Cardinality(image_paths) <= count
        THEN {image_paths}
        ELSE {chosen \in SUBSET image_paths : Cardinality(chosen) = count}

\* load_system keeping the records of the instance beside the persisted ones
load_system_keeps_records(self, files, nvidia_api_key) ==
    IF ~files.config.present
    THEN [self |-> self, raised |-> "FileNotFoundError"]
    ELSE IF ~files.config.valid
    THEN [self |-> self, raised |-> "JSONDecodeError"]
    ELSE LET cfg == files.config.data
             configured == [self EXCEPT
                              !.encoder_type = cfg.encoder_type,
                              !.nvidia_api_key = nvidia_api_key,
                              !.encoder = create_encoder(cfg.encoder_type, cfg.model_name,
                                                         nvidia_api_key)]
             loaded == load_index(configured.index, files)
         IN  IF loaded.raised # ""
             THEN [self |-> [configured EXCEPT !.index = loaded.self],
                   raised |-> loaded.raised]
             ELSE [self |-> [configured EXCEPT
                               !.index = loaded.self,
                               !.image_database =
                                  [p \in (DOMAIN @) \cup (DOMAIN cfg.image_database) |->
                                      IF p \in DOMAIN cfg.image_database
                                      THEN cfg.image_database[p] ELSE @[p]]],
                   raised |-> ""]

\* ImageRetrievalSystem.load_system
load_system(self, files, nvidia_api_key) ==
    IF ~files.config.present
    THEN [self |-> self, raised |-> "FileNotFoundError"]
    ELSE IF ~files.config.valid
    THEN [self |-> self, raised |-> "JSONDecodeError"]
    ELSE LET cfg == files.config.data
             configured == [self EXCEPT
                              !.encoder_type = cfg.encoder_type,
                              !.nvidia_api_key = nvidia_api_key,
                              !.encoder = create_encoder(cfg.encoder_type, cfg.model_name,
                                                         nvidia_api_key)]
             loaded == load_index(configured.index, files)
         IN  IF loaded.raised # ""
             THEN [self |-> [configured EXCEPT !.index = loaded.self],
                   raised |-> loaded.raised]
             ELSE [self |-> [configured EXCEPT !.index = loaded.self,
                                               !.image_database = cfg.image_database],
                   raised |-> ""]

(***************************************************************************)
(* NVIDIANIMEncoder.encode_images / encode_text with their request         *)
(* batches.  A row of the result is what it encodes (of), its length (len) *)
(* and its value (vec).  The rows the service answers with are taken to    *)
(* have the length get_embedding_dim() declares for the model.             *)
(***************************************************************************)
\* how one embeddings request can end: answered, or raising (the model
\* fails at the service, the call fails or times out)
RequestOutcomes == {"ok", "model_error", "call_failed", "timeout"}

\* how loading one image can end (Image.open(img).convert('RGB'))
ImageOutcomes == {"ok", "malformed"}

\* a request answered with the rows of its inputs in reverse order
nim_request_reversed(encoder, batch, features, outcome) ==
    [k \in 1..Len(batch) |->
        [of |-> batch[Len(batch) + 1 - k], len |-> get_embedding_dim(encoder),
         vec |-> IF outcome = "ok" THEN features[Len(batch) + 1 - k] ELSE ZeroVec]]

\* one pass of the request loop with the failed batch left out of the result
nim_request_drops_failed(encoder, batch, features, outcome) ==
    IF outcome = "ok"
    THEN [k \in 1..Len(batch) |->
            [of |-> batch[k], len |-> get_embedding_dim(encoder), vec |-> features[k]]]
    ELSE <<>>

\* one pass of the request loop: the rows all_embeddings is extended by,
\* the service's rows or, in the except branch, one dummy_embedding for each
\* input of the batch
nim_request(encoder, batch, features, outcome) ==
    IF outcome = "ok"
    THEN [k \in 1..Len(batch) |->
            [of |-> batch[k], len |-> get_embedding_dim(encoder), vec |-> features[k]]]
    ELSE [k \in 1..Len(batch) |->
            [of |-> batch[k], len |-> get_embedding_dim(encoder), vec |-> ZeroVec]]

\* "for i in range(0, len(inputs), batch_size)" from index i on
RECURSIVE nim_requests(_, _, _, _, _, _, _)
nim_requests(encoder, inputs, features, i, batch_size, outcomes, all_embeddings) ==
    IF i >= Len(inputs)
    THEN all_embeddings
    ELSE nim_requests(encoder, inputs, features, i + batch_size, batch_size, outcomes,
                      all_embeddings \o nim_request(encoder,
                                                    Slice(inputs, i, batch_size),
                                                    Slice(features, i, batch_size),
                                                    outcomes[(i \div batch_size) + 1]))

\* self.normalize_embeddings(np.array(all_embeddings)); of an empty list the
\* array has one axis and np.linalg.norm(..., axis=1) raises
nim_normalized(all_embeddings) ==
    IF all_embeddings = <<>>
    THEN [rows |-> <<>>, raised |-> "AxisError"]
    ELSE [rows |-> [k \in 1..Len(all_embeddings) |->
                       [all_embeddings[k] EXCEPT !.vec = normalize_embeddings(@)]],
          raised |-> ""]

\* NVIDIANIMEncoder.encode_images: every image is loaded and converted
\* before the request loop and outside its try; loads says how loading each
\* image ends, outcomes how each request ends
nim_encode_images(encoder, images, batch_size, loads, outcomes) ==
    IF \E k \in 1..Len(images) : loads[k] # "ok"
    THEN [rows |-> <<>>, raised |-> "UnidentifiedImageError"]
    ELSE nim_normalized(
            nim_requests(encoder, images,
                         [k \in 1..Len(images) |-> ImageFeatures(images[k])],
                         0, batch_size, outcomes, <<>>))

\* NVIDIANIMEncoder.encode_text
nim_encode_text(encoder, texts, batch_size, outcomes) ==
    nim_normalized(
        nim_requests(encoder, texts,
                     [k \in 1..Len(texts) |-> TextFeatures(texts[k])],
                     0, batch_size, outcomes, <<>>))

(***************************************************************************)
(* The state: one ImageRetrievalSystem instance (sys), the files at the    *)
(* path prefix (disk), the last call with what it returned (last), and the *)
(* rows handed to the index by direct add_vectors calls so far (hist).     *)
(***************************************************************************)
ApiKey == "nvapi-key"

Init ==
    /\ sys \in {ImageRetrievalSystem(e, "", t, ApiKey) : e \in EncoderTypes, t \in IndexTypes}
    /\ disk = NoFiles
    /\ last = [op |-> "init"]
    /\ hist = <<>>

\* the image files of the file system, in the order glob lists them
AllFiles == <<"a.jpg", "c.jpg", "b.png">>

\* what glob finds in a directory, for the directories there are
Directories ==
    {SubSeq(AllFiles, i, j) : i \in 1..(Len(AllFiles) + 1), j \in 0..Len(AllFiles)}
      \cap {l \in Seq(Paths) : Len(l) <= MaxFiles}

NumBatches(n, batch_size) == (n + batch_size - 1) \div batch_size

Room(self, n) ==
    /\ ntotal(self.index) + n <= MaxVectors
    /\ Len(self.image_paths) + n <= MaxVectors

\* a call of add_images_from_directory on one of dirs with one of
\* batch_sizes, in which every batch ends in one of the ways of allowed
Ingest(dirs, batch_sizes, allowed) ==
    \E image_paths \in dirs, batch_size \in batch_sizes :
      \E outcomes \in [1..NumBatches(Len(image_paths), batch_size) ->
                            BatchOutcomes(sys) \cap allowed] :
        LET done == add_images_from_directory(sys, image_paths, batch_size, outcomes)
        IN  /\ Room(sys.index, Len(image_paths))
            /\ sys' = done.self
            /\ last' = [op |-> "add_images_from_directory",
                        image_paths |-> image_paths, batch_size |-> batch_size,
                        ret |-> done.ret, raised |-> "", attempts |-> done.attempts]
            /\ UNCHANGED <<disk, hist>>

\* the directories an instance that is queried or saved has ingested, each
\* as one batch
WholeDirectories == {SubSeq(AllFiles, 1, 1), SubSeq(AllFiles, 2, 3)}

AnyOutcome == {"ok", "raise", "zero", "small"}

IngestWhole == Ingest(WholeDirectories, {MaxBatch}, AnyOutcome)

Search ==
    \E query \in Queries, top_k \in 0..MaxTopK, return_metadata \in BOOLEAN :
      \E outcome \in EncodeOutcomes(sys.encoder) :
        LET found == search(sys, query, top_k, return_metadata, outcome)
        IN  /\ last' = [op |-> "search", top_k |-> top_k,
                        return_metadata |-> return_metadata,
                        results |-> found.results, raised |-> found.raised,
                        encoder_called |-> found.encoder_called,
                        queried |-> found.queried]
            /\ UNCHANGED <<sys, disk, hist>>

SearchByImage ==
    \E image \in Paths, top_k \in 0..MaxTopK, return_metadata \in BOOLEAN :
      \E outcome \in EncodeOutcomes(sys.encoder) :
        LET found == search_by_image(sys, image, top_k, return_metadata, outcome)
        IN  /\ last' = [op |-> "search_by_image", top_k |-> top_k,
                        return_metadata |-> return_metadata,
                        results |-> found.results, raised |-> found.raised,
                        encoder_called |-> found.encoder_called,
                        queried |-> found.queried]
            /\ UNCHANGED <<sys, disk, hist>>

\* the retrieval system in use: ingestion and queries
Next ==
    \/ IngestWhole
    \/ Search
    \/ SearchByImage

Spec == Init /\ [][Next]_vars

\* a query changes nothing, so the queries asked right after construction
\* or after an ingestion are every query there is
NoQueryBefore == last.op \notin {"search", "search_by_image"}

SearchAfterIngestion == NoQueryBefore /\ Search

SearchByImageAfterIngestion == NoQueryBefore /\ SearchByImage

NextQuery ==
    \/ IngestWhole
    \/ SearchAfterIngestion
    \/ SearchByImageAfterIngestion

SpecQuery == Init /\ [][NextQuery]_vars

\* ingestion alone, over every directory and batch size
AddImagesFromDirectory == Ingest(Directories, 1..MaxBatch, AnyOutcome)

SpecIngest == Init /\ [][AddImagesFromDirectory]_vars

\* ingestion in which no batch fails
AddImagesAllBatchesSucceed == Ingest(Directories, 1..MaxBatch, {"ok"})

SpecIngestOk == Init /\ [][AddImagesAllBatchesSucceed]_vars

(***************************************************************************)
(* Saving and loading the system.                                          *)
(***************************************************************************)
SaveSystem ==
    LET saved == save_system(sys, disk)
    IN  /\ disk' = saved.files
        /\ last' = [op |-> "save_system", raised |-> saved.raised]
        /\ UNCHANGED <<sys, hist>>

LoadSystem ==
    LET loaded == load_system(sys, disk, ApiKey)
    IN  /\ sys' = loaded.self
        /\ last' = [op |-> "load_system", raised |-> loaded.raised,
                    n_before |-> ntotal(sys.index.index)]
        /\ UNCHANGED <<disk, hist>>

\* test_retrieval_system, "Save system" to "Verify loaded system": save the
\* system, load it into a new ImageRetrievalSystem() and search there; the
\* same search on the saved instance is recorded beside it
SaveAndLoadFresh ==
    \E query \in Queries, top_k \in 1..MaxTopK :
        LET saved == save_system(sys, disk)
            new_system == ImageRetrievalSystem("clip", "", "flat", "")
            loaded == load_system(new_system, saved.files, ApiKey)
            raised == IF saved.raised # "" THEN saved.raised ELSE loaded.raised
        IN  /\ disk' = saved.files
            /\ last' = [op |-> "save_and_load", raised |-> raised,
                        stats_before |-> get_stats(sys),
                        stats_after |-> get_stats(loaded.self),
                        results_before |-> search(sys, query, top_k, TRUE, "ok").results,
                        results_after |-> IF raised # "" THEN <<>>
                                          ELSE search(loaded.self, query, top_k, TRUE, "ok").results]
            /\ UNCHANGED <<sys, hist>>

\* systems of an earlier run or of another process, whose save_system wrote
\* the files at the same path prefix: new ones and ones that ingested b.png
OtherSystems ==
    {ImageRetrievalSystem(e, "", t, ApiKey) : e \in EncoderTypes, t \in IndexTypes}
      \cup {add_images_from_directory(ImageRetrievalSystem(e, "", t, ApiKey),
                                      <<"b.png">>, 1, <<"ok">>).self :
              e \in EncoderTypes, t \in IndexTypes}

SaveOtherSystem ==
    \E other \in OtherSystems :
        LET saved == save_system(other, disk)
        IN  /\ disk' = saved.files
            /\ last' = [op |-> "save_other_system", raised |-> saved.raised]
            /\ UNCHANGED <<sys, hist>>

\* the system and its files: ingestion, saving by this and by other
\* instances, loading
NextReload ==
    \/ IngestWhole
    \/ SaveSystem
    \/ SaveOtherSystem
    \/ LoadSystem

SpecReload == Init /\ [][NextReload]_vars

NextPersist ==
    \/ IngestWhole
    \/ SaveSystem
    \/ LoadSystem
    \/ SaveAndLoadFresh

SpecPersist == Init /\ [][NextPersist]_vars

(***************************************************************************)
(* The FAISSIndex used directly (the index of the instance).               *)
(***************************************************************************)
RowAt(i) == IF i % 2 = 1 THEN Vec(2, 0) ELSE Vec(0, 1)

PathAt(i) == IF i % 2 = 1 THEN "a.jpg" ELSE "b.png"

\* the argument lists of a direct call: the first n rows, the first m paths
DirectEmbeddings == {[i \in 1..n |-> RowAt(i)] : n \in 0..MaxArgLen}

DirectPaths == {[i \in 1..n |-> PathAt(i)] : n \in 0..MaxArgLen}

\* metadata: None, or one record for each path
DirectMetadata(image_paths) ==
    {<<>>, [i \in 1..Len(image_paths) |-> extract_image_metadata(image_paths[i], FALSE)]}

InitIndex ==
    /\ sys \in {ImageRetrievalSystem("clip", "", t, "") : t \in IndexTypes}
    /\ disk = NoFiles
    /\ last = [op |-> "init"]
    /\ hist = <<>>

\* the rows a call hands over, path by path
Handed(embeddings, image_paths, metadata) ==
    [i \in 1..Len(image_paths) |->
        [path |-> image_paths[i],
         vec |-> IF i <= Len(embeddings) THEN embeddings[i] ELSE NaNVec,
         meta |-> IF i <= Len(metadata) THEN metadata[i] ELSE EmptyMeta]]

AddVectorsCall(embeddings, image_paths, metadata, enough_rows) ==
    LET done == add_vectors(sys.index, embeddings, image_paths, metadata, enough_rows)
    IN  /\ Room(sys.index, Len(embeddings))
        /\ Room(sys.index, Len(image_paths))
        /\ sys' = [sys EXCEPT !.index = done.self]
        /\ last' = [op |-> "add_vectors", raised |-> done.raised,
                    n_vectors |-> Len(embeddings), n_paths |-> Len(image_paths)]
        /\ UNCHANGED disk

\* add_vectors with argument lists of any lengths
AddVectors ==
    \E embeddings \in DirectEmbeddings, image_paths \in DirectPaths, enough_rows \in BOOLEAN :
      \E metadata \in DirectMetadata(image_paths) :
        /\ AddVectorsCall(embeddings, image_paths, metadata, enough_rows)
        /\ UNCHANGED hist

IndexSearch ==
    \E query_embedding \in {Vec(2, 0), ZeroVec}, top_k \in 0..MaxTopK :
        LET found == index_search(sys.index, query_embedding, top_k)
        IN  /\ last' = [op |-> "index_search", top_k |-> top_k,
                        query_embedding |-> query_embedding,
                        results |-> found.results, raised |-> found.raised,
                        queried |-> searched_vectors(sys.index, query_embedding, top_k)]
            /\ UNCHANGED <<sys, disk, hist>>

SaveIndex ==
    /\ disk' = save_index(sys.index, disk)
    /\ last' = [op |-> "save_index", raised |-> ""]
    /\ UNCHANGED <<sys, hist>>

LoadIndex ==
    LET loaded == load_index(sys.index, disk)
    IN  /\ sys' = [sys EXCEPT !.index = loaded.self]
        /\ last' = [op |-> "load_index", raised |-> loaded.raised,
                    n_before |-> ntotal(sys.index.index)]
        /\ UNCHANGED <<disk, hist>>

\* a persisted file is removed (or was never written) outside the program
RemoveFile ==
    /\ \E f \in {"faiss", "pkl"} :
          /\ disk[f].present
          /\ disk' = [disk EXCEPT ![f] = NoFiles[f]]
    /\ last' = [op |-> "remove_file"]
    /\ UNCHANGED <<sys, hist>>

NextIndex ==
    \/ AddVectors
    \/ IndexSearch
    \/ SaveIndex
    \/ LoadIndex
    \/ RemoveFile

SpecIndex == InitIndex /\ [][NextIndex]_vars

\* indexes of an earlier run or of another instance, whose save_index wrote
\* the files at the same path prefix: new ones and ones holding one vector
OtherIndexes ==
    {FAISSIndex(1024, t) : t \in IndexTypes}
      \cup {add_vectors(FAISSIndex(512, t), <<Vec(-1, 0)>>, <<"c.jpg">>,
                        <<extract_image_metadata("c.jpg", TRUE)>>, TRUE).self :
              t \in IndexTypes}

SaveOtherIndex ==
    \E other \in OtherIndexes :
        /\ disk' = save_index(other, disk)
        /\ last' = [op |-> "save_other_index", raised |-> ""]
        /\ UNCHANGED <<sys, hist>>

\* add_vectors with the first k rows and their k paths, with k records or
\* without metadata
AddVectorsPrefix ==
    \E k \in 0..MaxArgLen, with_metadata \in BOOLEAN, enough_rows \in BOOLEAN :
        LET image_paths == [i \in 1..k |-> PathAt(i)]
            metadata == IF with_metadata
                        THEN [i \in 1..k |-> extract_image_metadata(PathAt(i), FALSE)]
                        ELSE <<>>
        IN  /\ AddVectorsCall([i \in 1..k |-> RowAt(i)], image_paths, metadata, enough_rows)
            /\ UNCHANGED hist

\* the index and its files: filled, searched, saved by this and by other
\* instances, and loaded
NextIndexFiles ==
    \/ AddVectorsPrefix
    \/ IndexSearch
    \/ SaveIndex
    \/ SaveOtherIndex
    \/ LoadIndex

SpecIndexFiles == InitIndex /\ [][NextIndexFiles]_vars

\* one of the three persisted files of a system is removed (or was never
\* written) outside the program
RemoveSystemFile ==
    /\ \E f \in {"faiss", "pkl", "config"} :
          /\ disk[f].present
          /\ disk' = [disk EXCEPT ![f] = NoFiles[f]]
    /\ last' = [op |-> "remove_file"]
    /\ UNCHANGED <<sys, hist>>

\* the system and its index loading from files of which some may be missing
NextMissingFiles ==
    \/ IngestWhole
    \/ SaveSystem
    \/ RemoveSystemFile
    \/ LoadSystem
    \/ LoadIndex

SpecMissingFiles == Init /\ [][NextMissingFiles]_vars

\* the index filled and searched, without its files
NextIndexSearch ==
    \/ AddVectors
    \/ IndexSearch

SpecIndexSearch == InitIndex /\ [][NextIndexSearch]_vars

(***************************************************************************)
(* add_vectors called with parallel lists: k rows, their k paths and       *)
(* either no metadata or k records.                                        *)
(***************************************************************************)
\* the rows a call may hand over: a vector, its path and its record
ParallelItems ==
    {[vec |-> Vec(2, 0), path |-> "a.jpg", meta |-> extract_image_metadata("a.jpg", FALSE)],
     [vec |-> Vec(0, 1), path |-> "b.png", meta |-> extract_image_metadata("c.jpg", TRUE)],
     [vec |-> Vec(2, 0), path |-> "b.png", meta |-> extract_image_metadata("a.jpg", FALSE)]}

AddVectorsParallel ==
    \E k \in 0..MaxArgLen, with_metadata \in BOOLEAN, enough_rows \in BOOLEAN :
      \E items \in [1..k -> ParallelItems] :
        LET embeddings == [i \in 1..k |-> items[i].vec]
            image_paths == [i \in 1..k |-> items[i].path]
            metadata == IF with_metadata THEN [i \in 1..k |-> items[i].meta] ELSE <<>>
        IN  /\ AddVectorsCall(embeddings, image_paths, metadata, enough_rows)
            /\ hist' = IF last'.raised = ""
                       THEN hist \o Handed(embeddings, image_paths, metadata)
                       ELSE hist

SpecAdd == InitIndex /\ [][AddVectorsParallel]_vars

(***************************************************************************)
(* The remote encoder called directly.                                     *)
(***************************************************************************)
InitEncoder ==
    /\ sys \in {ImageRetrievalSystem("nvidia_nim", m, "flat", ApiKey) :
                    m \in {"", "nvidia/nv-dinov2"}}
    /\ disk = NoFiles
    /\ last = [op |-> "init"]
    /\ hist = <<>>

\* the encoder keeps nothing from one call to the next, so a call on a new
\* encoder is every call there is
NewEncoder == last.op = "init"

\* the text lists of a direct encode_text call
TextLists == UNION {[1..n -> Queries] : n \in 0..MaxFiles}

NimEncodeImages ==
    \E images \in Directories, batch_size \in 1..MaxBatch :
      \E loads \in [1..Len(images) -> ImageOutcomes],
         outcomes \in [1..NumBatches(Len(images), batch_size) -> RequestOutcomes] :
        LET done == nim_encode_images(sys.encoder, images, batch_size, loads, outcomes)
        IN  /\ NewEncoder
            /\ last' = [op |-> "encode_images", inputs |-> images,
                        batch_size |-> batch_size, loads |-> loads,
                        outcomes |-> outcomes,
                        rows |-> done.rows, raised |-> done.raised]
            /\ UNCHANGED <<sys, disk, hist>>

NimEncodeText ==
    \E texts \in TextLists, batch_size \in 1..MaxBatch :
      \E outcomes \in [1..NumBatches(Len(texts), batch_size) -> RequestOutcomes] :
        LET done == nim_encode_text(sys.encoder, texts, batch_size, outcomes)
        IN  /\ NewEncoder
            /\ last' = [op |-> "encode_text", inputs |-> texts,
                        batch_size |-> batch_size,
                        loads |-> [k \in 1..Len(texts) |-> "ok"],
                        outcomes |-> outcomes,
                        rows |-> done.rows, raised |-> done.raised]
            /\ UNCHANGED <<sys, disk, hist>>

NextEncoder ==
    \/ NimEncodeImages
    \/ NimEncodeText

SpecEncoder == InitEncoder /\ [][NextEncoder]_vars

(***************************************************************************)
(* Construction: a caller builds an index or a system from names it was    *)
(* given, and uses what it built.                                          *)
(***************************************************************************)
\* the names a caller gives for the index structure and for the encoder
IndexNames == IndexTypes \cup {"Flat", "lsh", ""}

EncoderNames ==
    {"clip", "siglip", "nvidia_nim", "CLIP", "SigLIP", "Nvidia_NIM", "BLIP", "blip", ""}

\* what the caller holds before a constructor returned, and after it raised
NoInstance == [kind |-> "None"]

Built == sys # NoInstance

\* FAISSIndex(embedding_dim, index_type) as the caller sees it: the new
\* object, or the exception of _create_index
new_FAISSIndex(embedding_dim, index_type) ==
    LET self == FAISSIndex(embedding_dim, index_type)
    IN  IF self.index.kind = "ValueError"
        THEN [self |-> NoInstance, raised |-> "ValueError", message |-> self.index.message]
        ELSE [self |-> self, raised |-> "", message |-> <<>>]

\* ImageRetrievalSystem(...) as the caller sees it: _create_encoder runs
\* first, FAISSIndex(...) after it
new_ImageRetrievalSystem(encoder_type, model_name, index_type, nvidia_api_key) ==
    LET encoder == create_encoder(encoder_type, model_name, nvidia_api_key)
        self == ImageRetrievalSystem(encoder_type, model_name, index_type, nvidia_api_key)
    IN  IF encoder.kind = "ValueError"
        THEN [self |-> NoInstance, raised |-> "ValueError", message |-> encoder.message]
        ELSE IF self.index.index.kind = "ValueError"
        THEN [self |-> NoInstance, raised |-> "ValueError",
              message |-> self.index.index.message]
        ELSE [self |-> self, raised |-> "", message |-> <<>>]

InitConstruct ==
    /\ sys = NoInstance
    /\ disk = NoFiles
    /\ last = [op |-> "init"]
    /\ hist = <<>>

\* index = FAISSIndex(embedding_dim, index_type); the caller keeps the index
NewFAISSIndex ==
    \E embedding_dim \in {512, 1024}, index_type \in IndexNames :
        LET made == new_FAISSIndex(embedding_dim, index_type)
        IN  /\ ~Built
            /\ sys' = IF made.raised = "" THEN [index |-> made.self] ELSE sys
            /\ last' = [op |-> "FAISSIndex", encoder_type |-> "clip",
                        index_type |-> index_type,
                        raised |-> made.raised, message |-> made.message]
            /\ UNCHANGED <<disk, hist>>

\* system = ImageRetrievalSystem(encoder_type, model_name, index_type, ...)
NewImageRetrievalSystem ==
    \E encoder_type \in EncoderNames, model_name \in {"", "nvidia/nv-dinov2"},
       index_type \in IndexNames :
        LET made == new_ImageRetrievalSystem(encoder_type, model_name, index_type, ApiKey)
        IN  /\ ~Built
            /\ sys' = made.self
            /\ last' = [op |-> "ImageRetrievalSystem", encoder_type |-> encoder_type,
                        index_type |-> index_type,
                        raised |-> made.raised, message |-> made.message]
            /\ UNCHANGED <<disk, hist>>

\* what was built takes vectors and serves queries
AddToBuilt == Built /\ AddVectorsPrefix

SearchBuilt == Built /\ IndexSearch

NextConstruct ==
    \/ NewFAISSIndex
    \/ NewImageRetrievalSystem
    \/ AddToBuilt
    \/ SearchBuilt

SpecConstruct == InitConstruct /\ [][NextConstruct]_vars

(***************************************************************************)
(* Browsing: images are ingested and random ones are asked for.            *)
(***************************************************************************)
GetRandomImages ==
    \E count \in 0..(MaxFiles + 1) :
      \E image_paths \in random_images(sys, count) :
        /\ last' = [op |-> "get_random_images", count |-> count, ret |-> image_paths,
                    raised |-> ""]
        /\ UNCHANGED <<sys, disk, hist>>

\* ingestion of every directory in batches of MaxBatch, whose encoding
\* succeeds or raises
IngestInBatches == Ingest(Directories, {MaxBatch}, {"ok", "raise"})

NextBrowse ==
    \/ IngestInBatches
    \/ GetRandomImages

SpecBrowse == Init /\ [][NextBrowse]_vars

(***************************************************************************)
(* The index filled by well-formed calls and asked for its statistics.     *)
(***************************************************************************)
IndexGetStats ==
    /\ last' = [op |-> "index_get_stats", stats |-> index_get_stats(sys.index), raised |-> ""]
    /\ UNCHANGED <<sys, disk, hist>>

NextIndexStats ==
    \/ AddVectorsParallel
    \/ IndexGetStats

SpecIndexStats == InitIndex /\ [][NextIndexStats]_vars

(***************************************************************************)
(* Two runs side by side: systems a and b are built alike but for the API  *)
(* key, are given the same calls with the same outcomes, and write their   *)
(* files under prefixes of their own.  Here sys and disk hold one          *)
(* component per run.                                                      *)
(***************************************************************************)
OtherApiKey == "nvapi-other-key"

InitTwoKeys ==
    /\ sys \in {[a |-> ImageRetrievalSystem(e, "", t, ApiKey),
                  b |-> ImageRetrievalSystem(e, "", t, OtherApiKey)] :
                    e \in EncoderTypes, t \in IndexTypes}
    /\ disk = [a |-> NoFiles, b |-> NoFiles]
    /\ last = [op |-> "init"]
    /\ hist = <<>>

IngestBoth ==
    \E image_paths \in WholeDirectories :
      \E outcomes \in [1..NumBatches(Len(image_paths), MaxBatch) -> BatchOutcomes(sys.a)] :
        LET done_a == add_images_from_directory(sys.a, image_paths, MaxBatch, outcomes)
            done_b == add_images_from_directory(sys.b, image_paths, MaxBatch, outcomes)
        IN  /\ Room(sys.a.index, Len(image_paths))
            /\ Room(sys.b.index, Len(image_paths))
            /\ sys' = [a |-> done_a.self, b |-> done_b.self]
            /\ last' = [op |-> "add_images_from_directory",
                        ret |-> <<done_a.ret, done_b.ret>>, raised |-> ""]
            /\ UNCHANGED <<disk, hist>>

SaveBoth ==
    LET saved_a == save_system(sys.a, disk.a)
        saved_b == save_system(sys.b, disk.b)
    IN  /\ disk' = [a |-> saved_a.files, b |-> saved_b.files]
        /\ last' = [op |-> "save_system", raised |-> <<saved_a.raised, saved_b.raised>>]
        /\ UNCHANGED <<sys, hist>>

\* load_system, each run with the key of its own
LoadBoth ==
    LET loaded_a == load_system(sys.a, disk.a, ApiKey)
        loaded_b == load_system(sys.b, disk.b, OtherApiKey)
    IN  /\ sys' = [a |-> loaded_a.self, b |-> loaded_b.self]
        /\ last' = [op |-> "load_system", raised |-> <<loaded_a.raised, loaded_b.raised>>]
        /\ UNCHANGED <<disk, hist>>

NextTwoKeys ==
    \/ IngestBoth
    \/ SaveBoth
    \/ LoadBoth

SpecTwoKeys == InitTwoKeys /\ [][NextTwoKeys]_vars

(***************************************************************************)
(* One input list encoded with every batch size, by a model or a service   *)
(* that answers a request by what the request holds.                       *)
(***************************************************************************)
\* the embeddings service fails a request that holds an input it rejects
ServiceOutcome(batch, rejected) ==
    IF \E k \in 1..Len(batch) : batch[k] \in rejected THEN "model_error" ELSE "ok"

\* how the requests of one call end, batch by batch
request_outcomes(inputs, batch_size, rejected) ==
    [k \in 1..NumBatches(Len(inputs), batch_size) |->
        ServiceOutcome(Slice(inputs, (k - 1) * batch_size, batch_size), rejected)]

\* CLIPEncoder: one pass of the batch loop, the features of the batch
\* divided by their norms
clip_forward(encoder, batch, features) ==
    [k \in 1..Len(batch) |->
        [of |-> batch[k], len |-> get_embedding_dim(encoder), vec |-> np_normalize(features[k])]]

\* "for i in range(0, len(inputs), batch_size)" of CLIPEncoder from index i
\* on: all_embeddings is the list of the arrays of the batches
RECURSIVE clip_batches(_, _, _, _, _, _)
clip_batches(encoder, inputs, features, i, batch_size, all_embeddings) ==
    IF i >= Len(inputs)
    THEN all_embeddings
    ELSE clip_batches(encoder, inputs, features, i + batch_size, batch_size,
                      Append(all_embeddings,
                             clip_forward(encoder, Slice(inputs, i, batch_size),
                                          Slice(features, i, batch_size))))

\* np.vstack(all_embeddings): the rows of the arrays one after another
RECURSIVE np_vstack(_)
np_vstack(arrays) ==
    IF arrays = <<>> THEN <<>> ELSE Head(arrays) \o np_vstack(Tail(arrays))

\* CLIPEncoder.encode_images / encode_text: an input the processor or the
\* model rejects raises out of the loop; np.vstack of no array raises
clip_encode(encoder, inputs, features, batch_size, rejected) ==
    IF \E k \in 1..Len(inputs) : inputs[k] \in rejected
    THEN [rows |-> <<>>, raised |-> "Exception"]
    ELSE IF inputs = <<>>
    THEN [rows |-> <<>>, raised |-> "ValueError"]
    ELSE [rows |-> np_vstack(clip_batches(encoder, inputs, features, 0, batch_size, <<>>)),
          raised |-> ""]

\* encode_images (of images that load) or encode_text of the encoder
encode_batched(encoder, op, inputs, batch_size, rejected) ==
    IF encoder.kind = "NVIDIANIMEncoder"
    THEN IF op = "encode_images"
         THEN nim_encode_images(encoder, inputs, batch_size,
                                [k \in 1..Len(inputs) |-> "ok"],
                                request_outcomes(inputs, batch_size, rejected))
         ELSE nim_encode_text(encoder, inputs, batch_size,
                              request_outcomes(inputs, batch_size, rejected))
    ELSE clip_encode(encoder, inputs,
                     [k \in 1..Len(inputs) |->
                         IF op = "encode_images" THEN ImageFeatures(inputs[k])
                         ELSE TextFeatures(inputs[k])],
                     batch_size, rejected)

InitBatching ==
    /\ sys \in {ImageRetrievalSystem(e, "", "flat", ApiKey) : e \in EncoderTypes}
    /\ disk = NoFiles
    /\ last = [op |-> "init"]
    /\ hist = <<>>

\* the batch sizes a list is encoded with
BatchSizes == 1..(MaxBatch + 1)

\* one list encoded with every batch size, and each input encoded alone
EncodeCall(op, inputs, rejected) ==
    /\ NewEncoder
    /\ last' = [op |-> op, inputs |-> inputs, rejected |-> rejected,
                by_batch_size |-> [b \in BatchSizes |->
                                     encode_batched(sys.encoder, op, inputs, b, rejected)],
                alone |-> [i \in 1..Len(inputs) |->
                             encode_batched(sys.encoder, op, <<inputs[i]>>, 1, rejected)]]
    /\ UNCHANGED <<sys, disk, hist>>

EncodeImagesBatched ==
    \E images \in Directories, rejected \in SUBSET Paths :
        EncodeCall("encode_images", images, rejected)

EncodeTextBatched ==
    \E texts \in TextLists, rejected \in SUBSET Queries :
        EncodeCall("encode_text", texts, rejected)

NextBatching ==
    \/ EncodeImagesBatched
    \/ EncodeTextBatched

SpecBatching == InitBatching /\ [][NextBatching]_vars

(***************************************************************************)
(* The system in use over its life: ingestion, saving by this and by other *)
(* systems, loading, and queries.                                          *)
(***************************************************************************)
\* save_system of a system of an earlier run that ingested b.png into an
\* hnsw index
SaveEarlierSystem ==
    LET earlier == add_images_from_directory(ImageRetrievalSystem("clip", "", "hnsw", ApiKey),
                                             <<"b.png">>, 1, <<"ok">>).self
        saved == save_system(earlier, disk)
    IN  /\ disk' = saved.files
        /\ last' = [op |-> "save_other_system", raised |-> saved.raised]
        /\ UNCHANGED <<sys, hist>>

\* search and search_by_image asking for MaxTopK results, the query encoded
\* without failure
SearchTopK ==
    \E query \in Queries, return_metadata \in BOOLEAN :
        LET found == search(sys, query, MaxTopK, return_metadata, "ok")
        IN  /\ last' = [op |-> "search", top_k |-> MaxTopK,
                        return_metadata |-> return_metadata,
                        results |-> found.results, raised |-> found.raised,
                        encoder_called |-> found.encoder_called,
                        queried |-> found.queried]
            /\ UNCHANGED <<sys, disk, hist>>

SearchByImageTopK ==
    \E image \in Paths, return_metadata \in BOOLEAN :
        LET found == search_by_image(sys, image, MaxTopK, return_metadata, "ok")
        IN  /\ last' = [op |-> "search_by_image", top_k |-> MaxTopK,
                        return_metadata |-> return_metadata,
                        results |-> found.results, raised |-> found.raised,
                        encoder_called |-> found.encoder_called,
                        queried |-> found.queried]
            /\ UNCHANGED <<sys, disk, hist>>

NextUse ==
    \/ IngestWhole
    \/ SaveSystem
    \/ SaveEarlierSystem
    \/ LoadSystem
    \/ SearchTopK
    \/ SearchByImageTopK

SpecUse == Init /\ [][NextUse]_vars

(***************************************************************************)
(* Properties.                                                             *)
(***************************************************************************)
IsIngest(call) == call.op = "add_images_from_directory"

IsQuery(call) == call.op \in {"search", "search_by_image"}

Elements(seq) == {seq[i] : i \in 1..Len(seq)}

\* the images of the batches of a call that did not fail
RECURSIVE SucceededCount(_)
SucceededCount(attempts) ==
    IF attempts = <<>> THEN 0
    ELSE (IF Head(attempts).failed = "" THEN Len(Head(attempts).paths) ELSE 0)
         + SucceededCount(Tail(attempts))

NoneFailed(attempts) == \A k \in 1..Len(attempts) : attempts[k].failed = ""

\* C1: in every state reached by add_vectors and load_index calls, whatever
\* their arguments and whether they raise, the path list of the index is as
\* long as the number of vectors the index holds.
C1_PathListMatchesVectors ==
    Len(sys.index.image_paths) = ntotal(sys.index.index)

\* C2: after add_vectors calls with parallel lists, the i-th row handed over
\* overall has id i - 1: it is the vector stored at that id, get_image_path of
\* the id is its path and get_metadata of the id is the record given with it
\* ({} when none was given).
C2_IdsFollowInsertionOrder ==
    /\ Len(hist) = ntotal(sys.index.index)
    /\ \A i \in 0..(Len(hist) - 1) :
          /\ get_image_path(sys.index, i) = hist[i + 1].path
          /\ get_metadata(sys.index, i) = hist[i + 1].meta
          /\ sys.index.index.xb[i + 1] = np_normalize(hist[i + 1].vec)

C2_Witness ==
    /\ last.op = "add_vectors" /\ last.raised = "" /\ last.n_vectors = 2
    /\ Len(hist) = 3
    /\ get_image_path(sys.index, 2) = "b.png" /\ get_image_path(sys.index, 0) = "a.jpg"
    /\ get_metadata(sys.index, 2) = extract_image_metadata("c.jpg", TRUE)
    /\ get_metadata(sys.index, 0) = EmptyMeta

\* C3: a batch whose encoding raises adds nothing in that call: none of its
\* paths enters the path list, the per-id metadata or the metadata store, the
\* index grows by the rows of the other batches only, and the batch is
\* attempted once.
C3_BatchSkipped(before, after, call) ==
    LET old_len == Len(before.index.image_paths)
        new_paths == Elements(SubSeq(after.index.image_paths, old_len + 1,
                                     Len(after.index.image_paths)))
    IN  /\ ntotal(after.index.index) - ntotal(before.index.index)
              = Len(after.index.image_paths) - old_len
        /\ \A k \in 1..Len(call.attempts) :
              call.attempts[k].failed = "encode" =>
                \A p \in Elements(call.attempts[k].paths) :
                    /\ p \notin new_paths
                    /\ (p \in DOMAIN after.image_database) = (p \in DOMAIN before.image_database)
                    /\ DictGet(after.image_database, p) = DictGet(before.image_database, p)
                    /\ \A id \in DOMAIN after.index.metadata :
                          after.index.metadata[id].path = p =>
                             /\ id \in DOMAIN before.index.metadata
                             /\ before.index.metadata[id] = after.index.metadata[id]
                    /\ \A j \in 1..Len(call.attempts) :
                          j # k => p \notin Elements(call.attempts[j].paths)

C3_FailedEncodingSkipsBatch ==
    [][IsIngest(last') => C3_BatchSkipped(sys, sys', last')]_vars

C3_Witness ==
    /\ IsIngest(last) /\ Len(last.attempts) = 2
    /\ last.attempts[1].failed = "encode" /\ last.attempts[2].failed = ""
    /\ last.ret = 1 /\ ntotal(sys.index.index) = 1

\* C4: after add_images_from_directory calls in which every batch succeeds,
\* the metadata store has as many entries as the index has vectors and paths.
C4_StoreMatchesIndex ==
    /\ Cardinality(DOMAIN sys.image_database) = ntotal(sys.index.index)
    /\ Cardinality(DOMAIN sys.image_database) = Len(sys.index.image_paths)

\* a result list as (path, score) pairs in rank order
Ranking(results) ==
    [i \in 1..Len(results) |->
        <<results[i].image_path, results[i].similarity_score, results[i].rank>>]

\* C5: save_system followed by load_system into a new instance gives an
\* instance with the same get_stats() and the same ranked paths and scores
\* for a query.
C5_SaveLoadRoundTrip ==
    last.op = "save_and_load" =>
        /\ last.raised = ""
        /\ last.stats_after = last.stats_before
        /\ Ranking(last.results_after) = Ranking(last.results_before)

\* C6: on a system without images, ingesting a directory of N supported
\* files with no batch failing returns N and leaves total_images = N; on a
\* directory without a matching file the call returns 0, does not raise and
\* changes nothing.
C6_Counts(before, after, call) ==
    /\ call.image_paths = <<>> =>
          call.ret = 0 /\ call.raised = "" /\ after = before
    /\ ( /\ before.image_database = <<>>
         /\ ntotal(before.index.index) = 0
         /\ NoneFailed(call.attempts) )
       => /\ call.ret = Len(call.image_paths)
          /\ get_stats(after).total_images = Len(call.image_paths)

C6_IngestCountsImages ==
    [][IsIngest(last') => C6_Counts(sys, sys', last')]_vars

C6_Witness ==
    /\ IsIngest(last) /\ Len(last.image_paths) = 3 /\ Len(last.attempts) = 2
    /\ NoneFailed(last.attempts)
    /\ last.ret = 3 /\ get_stats(sys).total_images = 3 /\ ntotal(sys.index.index) = 3

\* C7: whatever batches fail, add_images_from_directory does not raise,
\* attempts every batch once and in order, and returns the number of images
\* of the batches that did not fail.
C7_EveryBatchAttemptedOnce ==
    IsIngest(last) =>
        /\ last.raised = ""
        /\ Len(last.attempts) = NumBatches(Len(last.image_paths), last.batch_size)
        /\ \A k \in 1..Len(last.attempts) :
              /\ last.attempts[k].start = (k - 1) * last.batch_size
              /\ last.attempts[k].paths
                    = Slice(last.image_paths, last.attempts[k].start, last.batch_size)
        /\ last.ret = SucceededCount(last.attempts)

C7_Witness ==
    /\ IsIngest(last) /\ Len(last.attempts) = 3
    /\ last.attempts[1].failed = "encode" /\ last.attempts[2].failed = "add"
    /\ last.attempts[3].failed = "" /\ last.ret = 1

\* C8: search and search_by_image on a system whose index holds no vector
\* return an empty list, raise nothing and do not call the encoder.
C8_EmptyIndexQuery ==
    (IsQuery(last) /\ ntotal(sys.index.index) = 0) =>
        /\ last.results = <<>>
        /\ last.raised = ""
        /\ ~last.encoder_called

C8_Witness ==
    /\ last.op = "search" /\ ntotal(sys.index.index) = 0
    /\ DOMAIN sys.image_database # {}
    /\ last.results = <<>>

\* C9: FAISSIndex.search on an index without vectors returns ([], []) and
\* does not raise, for every query vector and top_k and each structure type.
C9_EmptyIndexSearch ==
    (last.op = "index_search" /\ ntotal(sys.index.index) = 0) =>
        last.results = <<>> /\ last.raised = ""

C9_Witness ==
    /\ last.op = "index_search" /\ ntotal(sys.index.index) = 0
    /\ sys.index.index.kind = "IndexIVFFlat" /\ ~sys.index.index.is_trained
    /\ last.query_embedding = ZeroVec /\ last.top_k = 0
    /\ last.results = <<>>

\* C10: the results of search and search_by_image are in order of
\* non-increasing similarity_score and the result at position i has rank i.
C10_RankedByDescendingScore ==
    IsQuery(last) =>
        \A i \in 1..Len(last.results) :
            /\ last.results[i].rank = i
            /\ i < Len(last.results) =>
                  last.results[i].similarity_score >= last.results[i + 1].similarity_score

\* C11: every vector stored in the index and every query vector handed to
\* the underlying index has unit Euclidean norm, for each encoder and each
\* encoder outcome.  (All vectors of the model have the same number of
\* components, as faiss itself rejects a row of another length; the norm is
\* what can differ.)
C11_StoredAndQueriedVectorsUnit ==
    /\ \A i \in 1..ntotal(sys.index.index) : IsUnit(sys.index.index.xb[i])
    /\ IsQuery(last) => \A i \in 1..Len(last.queried) : IsUnit(last.queried[i])

IsEncode(call) == call.op \in {"encode_images", "encode_text"}

\* the request batch (counted from 1) the k-th input of a call belongs to
BatchOf(call, k) == ((k - 1) \div call.batch_size) + 1

\* what the model gives the k-th input of a call
FeaturesOf(call, k) ==
    IF call.op = "encode_images" THEN ImageFeatures(call.inputs[k])
    ELSE TextFeatures(call.inputs[k])

\* C12: when the request of a batch raises, encode_images and encode_text of
\* the remote encoder return normally with one row per input in input order;
\* the rows of a failed batch are all zero and of length get_embedding_dim(),
\* the rows of the other batches are the normalized rows of the service.
C12_FailedRequestGivesZeroRows ==
    ( /\ IsEncode(last)
      /\ \A k \in 1..Len(last.inputs) : last.loads[k] = "ok"
      /\ \E b \in DOMAIN last.outcomes : last.outcomes[b] # "ok" )
    => /\ last.raised = ""
       /\ Len(last.rows) = Len(last.inputs)
       /\ \A k \in 1..Len(last.inputs) :
             /\ last.rows[k].of = last.inputs[k]
             /\ last.rows[k].len = get_embedding_dim(sys.encoder)
             /\ last.rows[k].vec =
                    IF last.outcomes[BatchOf(last, k)] = "ok"
                    THEN normalize_embeddings(FeaturesOf(last, k))
                    ELSE ZeroVec

C12_Witness ==
    /\ last.op = "encode_images" /\ Len(last.inputs) = 3 /\ last.batch_size = 2
    /\ last.outcomes[1] = "timeout" /\ last.outcomes[2] = "ok"
    /\ last.raised = "" /\ Len(last.rows) = 3
    /\ last.rows[1].vec = ZeroVec /\ last.rows[2].vec = ZeroVec
    /\ last.rows[3].vec = Vec(0, 1) /\ last.rows[3].len = 1024

\* C13: with the remote encoder, a model error, a malformed or unreadable
\* image, a failed or timed-out call are all answered with zero rows:
\* encode_images raises for none of them.
C13_EveryFailureGivesZeroRows ==
    (last.op = "encode_images" /\ last.inputs # <<>>)
    => /\ last.raised = ""
       /\ Len(last.rows) = Len(last.inputs)
       /\ \A k \in 1..Len(last.inputs) :
             (last.loads[k] # "ok" \/ last.outcomes[BatchOf(last, k)] # "ok")
                => last.rows[k].vec = ZeroVec

\* every id that resolves to a path in index before resolves to the same
\* path in index after
IdsKept(before, after) ==
    \A i \in 0..(Len(before.image_paths) - 1) :
        get_image_path(before, i) # "" =>
            get_image_path(after, i) = get_image_path(before, i)

\* C14 as stated: over add_vectors and load_index calls, once
\* get_image_path(i) returns a path it returns that path in every later state.
C14_IdsNeverReassigned ==
    [][IdsKept(sys.index, sys'.index)]_vars

\* C14 as amended: add_vectors never reassigns an id: every id that resolves
\* to a path before the call resolves to the same path after it.
C14_AddVectorsKeepsIds ==
    [][last'.op = "add_vectors" => IdsKept(sys.index, sys'.index)]_vars

C14_Witness ==
    /\ last.op = "add_vectors" /\ last.raised = "" /\ last.n_paths = 1
    /\ Len(sys.index.image_paths) = 3
    /\ get_image_path(sys.index, 1) = "b.png" /\ get_image_path(sys.index, 2) = "a.jpg"

\* C15: a load_index that returns leaves the index with exactly the
\* persisted vectors, path list, per-id metadata, dimension and structure
\* type, whatever it held before.
C15_LoadOverwrites ==
    [][(last'.op = "load_index" /\ last'.raised = "")
          => /\ sys'.index.index = disk.faiss.data
             /\ sys'.index.image_paths = disk.pkl.data.image_paths
             /\ sys'.index.metadata = disk.pkl.data.metadata
             /\ sys'.index.embedding_dim = disk.pkl.data.embedding_dim
             /\ sys'.index.index_type = disk.pkl.data.index_type]_vars

C15_Witness ==
    /\ last.op = "load_index" /\ last.raised = "" /\ last.n_before = 2
    /\ sys.index.image_paths = <<"c.jpg">>
    /\ DOMAIN sys.index.metadata = {0}
    /\ ntotal(sys.index.index) = 1
    /\ sys.index.index_type # sys.index_type

\* the index the files at the path prefix hold
PersistedIndex ==
    [embedding_dim |-> disk.pkl.data.embedding_dim,
     index_type |-> disk.pkl.data.index_type,
     index |-> disk.faiss.data,
     image_paths |-> disk.pkl.data.image_paths,
     metadata |-> disk.pkl.data.metadata]

\* after is the persisted system and nothing else: its encoder, index and
\* metadata store are the persisted ones, and search, get_stats and
\* get_random_images give persisted images only
OnlyPersisted(after) ==
    LET cfg == disk.config.data
    IN  /\ after.encoder_type = cfg.encoder_type
        /\ after.encoder.model_name = cfg.model_name
        /\ after.index = PersistedIndex
        /\ after.image_database = cfg.image_database
        /\ get_stats(after).total_images = Cardinality(DOMAIN cfg.image_database)
        /\ get_stats(after).index_stats = index_get_stats(PersistedIndex)
        /\ get_stats(after).encoder_type = cfg.encoder_type
        /\ get_stats(after).model_name = cfg.model_name
        /\ \A query \in Queries, top_k \in 1..MaxTopK :
              LET results == search(after, query, top_k, TRUE, "ok").results
              IN  \A i \in 1..Len(results) :
                    /\ results[i].image_path \in Elements(disk.pkl.data.image_paths)
                    /\ results[i].metadata = DictGet(cfg.image_database, results[i].image_path)
        /\ \A count \in 0..MaxFiles :
              \A chosen \in get_random_images(after, count) :
                    chosen \subseteq DOMAIN cfg.image_database

\* C16: a load_system that returns replaces the state of the instance
\* wholesale: encoder type, model name, index contents, path list and
\* metadata store are the persisted ones and nothing ingested before is
\* reachable through search, get_stats or get_random_images.
C16_LoadSystemReplacesState ==
    [][(last'.op = "load_system" /\ last'.raised = "") => OnlyPersisted(sys')]_vars

C16_Witness ==
    /\ last.op = "load_system" /\ last.raised = "" /\ last.n_before = 2
    /\ sys.index.image_paths = <<"b.png">>
    /\ DOMAIN sys.image_database = {"b.png"}
    /\ sys.index.index_type # sys.index_type

\* C17 as stated: in every state reached by add_vectors, search, save_index
\* and load_index calls, index_type is the type given to the constructor.
C17_TypeFixedAtConstruction ==
    sys.index.index_type = sys.index_type

\* C17 as amended: add_vectors, search and save_index leave index_type as it
\* is, and a load_index that returns sets it to the persisted type.
C17_TypeChangesOnlyByLoad ==
    [][IF last'.op = "load_index" /\ last'.raised = ""
       THEN sys'.index.index_type = disk.pkl.data.index_type
       ELSE sys'.index.index_type = sys.index.index_type]_vars

C17_Witness ==
    /\ last.op = "load_index" /\ last.raised = "" /\ last.n_before = 0
    /\ sys.index_type = "flat" /\ sys.index.index_type = "hnsw"
    /\ sys.index.index.kind = "IndexHNSWFlat"

\* C18: load_index raises FileNotFoundError when P.faiss or P_metadata.pkl
\* is missing, and load_system raises a not-found error when P_config.json
\* or one of the two index files is missing.
C18_MissingFileRaisesNotFound ==
    /\ (last.op = "load_index" /\ (~disk.faiss.present \/ ~disk.pkl.present))
          => last.raised = "FileNotFoundError"
    /\ ( /\ last.op = "load_system"
         /\ (~disk.config.present \/ ~disk.faiss.present \/ ~disk.pkl.present) )
          => last.raised = "FileNotFoundError"

\* the encoder names _create_encoder accepts, in lower case
SupportedEncoders == {"clip", "siglip", "nvidia_nim"}

UnsupportedEncoder ==
    last.op = "ImageRetrievalSystem" /\ lower(last.encoder_type) \notin SupportedEncoders

UnsupportedIndex ==
    last.op \in {"FAISSIndex", "ImageRetrievalSystem"} /\ last.index_type \notin IndexTypes

RaisedNaming(value) ==
    /\ last.raised = "ValueError"
    /\ last.message[Len(last.message)] = value
    /\ ~Built
    /\ hist = <<>>

\* C19: a FAISSIndex built with a structure name outside {flat, ivf, hnsw},
\* and an ImageRetrievalSystem built with an encoder name that is, in lower
\* case, outside {clip, siglip, nvidia_nim} or with an unsupported index
\* name, raises a ValueError whose message carries the unsupported name as
\* it was given, and leaves the caller without an instance: nothing was
\* added to it and no query was served.
C19_UnsupportedNameRaisesValueError ==
    /\ UnsupportedEncoder => RaisedNaming(last.encoder_type)
    /\ (UnsupportedIndex /\ ~UnsupportedEncoder) => RaisedNaming(last.index_type)
    /\ ~Built => last.op \in {"init", "FAISSIndex", "ImageRetrievalSystem"}

C19_Witness ==
    /\ last.op = "ImageRetrievalSystem"
    /\ last.encoder_type = "CLIP"
    /\ last.index_type = "Flat"
    /\ last.raised = "ValueError"
    /\ last.message = <<"Unsupported index type: ", "Flat">>

\* the inner product of the normalised query of the last search with the
\* stored vector of an id
StoredScore(id) == InnerProduct(np_normalize(last.query_embedding), sys.index.index.xb[id + 1])

Min(a, b) == IF a < b THEN a ELSE b

\* the hits are the expected number of distinct stored ids, each with its
\* inner product as score, in non-increasing score order, and no stored
\* vector left out scores higher than one returned
ExactTopK(results, top_k, n) ==
    /\ Len(results) = Min(top_k, n)
    /\ \A i \in 1..Len(results) :
          /\ results[i].id \in 0..(n - 1)
          /\ results[i].score = StoredScore(results[i].id)
          /\ \A j \in 1..Len(results) : i < j =>
                /\ results[i].id # results[j].id
                /\ results[i].score >= results[j].score
          /\ \A id \in 0..(n - 1) :
                (\A j \in 1..Len(results) : results[j].id # id)
                    => StoredScore(id) <= results[i].score

FlatSearched ==
    /\ last.op = "index_search"
    /\ sys.index.index_type = "flat"
    /\ ntotal(sys.index.index) >= 1

\* C20: a search of a flat index holding n >= 1 vectors returns, without
\* raising, the min(top_k, n) ids whose stored vectors have the largest
\* inner product with the query, in non-increasing score order.
C20_FlatSearchIsExact ==
    FlatSearched =>
        /\ last.raised = ""
        /\ ExactTopK(last.results, last.top_k, ntotal(sys.index.index))

\* C21: get_random_images(count), count >= 0, returns a list of exactly
\* min(count, number of keys of the metadata store) pairwise distinct paths,
\* each a key of the metadata store; with count at least the number of keys
\* it returns all of them.
C21_RandomImagesAreDistinctKnownPaths ==
    last.op = "get_random_images" =>
        LET known == DOMAIN sys.image_database
            ret == last.ret
        IN  /\ Len(ret) = Min(last.count, Cardinality(known))
            /\ \A i \in 1..Len(ret) : ret[i] \in known
            /\ \A i, j \in 1..Len(ret) : i # j => ret[i] # ret[j]
            /\ last.count >= Cardinality(known) => {ret[i] : i \in 1..Len(ret)} = known

C21_Witness ==
    /\ last.op = "get_random_images"
    /\ last.count = 1
    /\ Len(last.ret) = 1
    /\ Cardinality(DOMAIN sys.image_database) = 2
    /\ Len(sys.index.image_paths) = 3

\* the distinct paths of a path list
DistinctPaths(image_paths) == {image_paths[i] : i \in 1..Len(image_paths)}

\* C22: FAISSIndex.get_stats reports total_vectors equal to the number of
\* vectors held, the dimension and the structure type of the index, and
\* total_images equal to the number of distinct image paths the index holds,
\* also after the same path was added more than once.
C22_StatsCountDistinctPaths ==
    last.op = "index_get_stats" =>
        /\ last.stats.total_vectors = ntotal(sys.index.index)
        /\ last.stats.embedding_dim = sys.index.embedding_dim
        /\ last.stats.index_type = sys.index.index_type
        /\ sys.index.index = [create_index(last.stats.index_type) EXCEPT
                                !.xb = sys.index.index.xb,
                                !.is_trained = sys.index.index.is_trained]
        /\ last.stats.total_images = Cardinality(DistinctPaths(sys.index.image_paths))

\* C23: the files save_system writes do not depend on nvidia_api_key: two
\* systems that differ in the API key only and are given the same calls
\* hold identical P.faiss, P_metadata.pkl and P_config.json.
C23_ArtifactsIndependentOfApiKey == disk.a = disk.b

C23_Witness ==
    /\ last.op = "save_system"
    /\ sys.a.encoder_type = "nvidia_nim"
    /\ sys.a.encoder.api_key # sys.b.encoder.api_key
    /\ sys.a.nvidia_api_key # sys.b.nvidia_api_key
    /\ sys.a.image_database # <<>>
    /\ disk.a.faiss.present /\ disk.a.pkl.present
    /\ disk.a.config.present /\ disk.a.config.valid

\* a step that is an add_vectors call on an index built as ivf
IvfAddStep == last'.op = "add_vectors" /\ sys.index.index_type = "ivf"

\* C24: for the ivf structure, the first add_vectors call on an untrained
\* index trains the quantizer before it inserts (is_trained goes from false
\* to true); a call on a trained index does not train again, so it neither
\* changes the flag nor raises for a batch too small to train on; and no
\* vector is inserted while the index is untrained.
C24_IvfTrainsOnFirstAdd ==
    [][IvfAddStep =>
          /\ ~sys.index.index.is_trained => sys'.index.index.is_trained
          /\ sys.index.index.is_trained =>
                (sys'.index.index.is_trained /\ last'.raised = "")
          /\ ntotal(sys'.index.index) > ntotal(sys.index.index) =>
                sys'.index.index.is_trained]_vars

\* what the underlying index reports for the last search
Reported == faiss_search(sys.index.index, np_normalize(last.query_embedding), last.top_k)

\* C25: a FAISSIndex.search that returns gives scores and ids hit by hit, at
\* most top_k and at most as many as there are vectors; no id is -1 and
\* every id is at least 0 and below the number of vectors; the hits are
\* those the underlying index reports, in its order, the ones with id -1
\* left out together with their scores.
C25_SearchDropsSentinelHits ==
    (last.op = "index_search" /\ last.raised = "") =>
        /\ Len(last.results) <= last.top_k
        /\ Len(last.results) <= ntotal(sys.index.index)
        /\ \A i \in 1..Len(last.results) :
              /\ last.results[i].id # -1
              /\ 0 <= last.results[i].id
              /\ last.results[i].id < ntotal(sys.index.index)
        /\ ntotal(sys.index.index) > 0 =>
              last.results = SelectSeq(Reported, LAMBDA hit : hit.id # -1)

C25_Witness ==
    /\ last.op = "index_search" /\ last.raised = ""
    /\ last.top_k = 2
    /\ Len(last.results) = 1
    /\ Reported[2].id = -1

IsBatchedEncode == last.op \in {"encode_images", "encode_text"}

\* every batch size gives the same result, and a returned row i is the row
\* input i gets when it is encoded alone
SameForEveryBatchSize ==
    /\ \A b1, b2 \in BatchSizes : last.by_batch_size[b1] = last.by_batch_size[b2]
    /\ \A b \in BatchSizes :
          last.by_batch_size[b].raised = "" =>
              /\ Len(last.by_batch_size[b].rows) = Len(last.inputs)
              /\ \A i \in 1..Len(last.inputs) :
                    /\ last.by_batch_size[b].rows[i].of = last.inputs[i]
                    /\ last.alone[i].raised = ""
                    /\ last.by_batch_size[b].rows[i] = last.alone[i].rows[1]

NoRequestFails == \A i \in 1..Len(last.inputs) : last.inputs[i] \notin last.rejected

C27_RecordedPathsAreIndexed ==
    \A path \in DOMAIN sys.image_database : path \in DistinctPaths(sys.index.image_paths)

\* C28: a load_index call that raises leaves the index unchanged: the
\* vectors, the path list, the per-id metadata, the dimension and the
\* structure type are the ones from before the call.
C28_FailedLoadChangesNothing ==
    [][(last'.op = "load_index" /\ last'.raised # "") => sys'.index = sys.index]_vars

\* C29: the system's own index_type equals the structure type of its index
\* in every reachable state, so the index_type save_system writes to
\* P_config.json equals the one it writes to P_metadata.pkl.
C29_SystemIndexTypeMatchesIndex ==
    /\ sys.index_type = sys.index.index_type
    /\ (last.op = "save_system" /\ last.raised = "") =>
            disk.config.data.index_type = disk.pkl.data.index_type

IsSystemSearch == last.op \in {"search", "search_by_image"}

\* C30: every result of search and search_by_image has an image_path that
\* is not empty and is in the path list of the index, and, with
\* return_metadata, carries the metadata store's record of that path, never
\* the empty default.
C30_ResultsNamePathsWithRecords ==
    IsSystemSearch =>
        \A i \in 1..Len(last.results) :
            LET result == last.results[i]
            IN  /\ result.image_path # ""
                /\ result.image_path \in DistinctPaths(sys.index.image_paths)
                /\ last.return_metadata =>
                      /\ result.image_path \in DOMAIN sys.image_database
                      /\ result.metadata = sys.image_database[result.image_path]
                      /\ result.metadata # EmptyMeta

C30_Witness ==
    /\ IsSystemSearch
    /\ last.return_metadata
    /\ Len(last.results) = 2
    /\ last.results[1].image_path # last.results[2].image_path
    /\ last.results[1].metadata.size = "list"

=============================================================================
